---- MODULE Spec2Model ----
(***************************************************************************)
(* img-server: the upload / download / list / delete handlers of            *)
(* src/src/handler.rs over the shared AppConfig of src/src/config.rs, the   *)
(* images, thumbs and temp directories, and the persisted config file.      *)
(***************************************************************************)
EXTENDS Integers, Sequences, FiniteSets, TLC

(* ------------------------------ bounds --------------------------------- *)

\* concurrent request handlers (tokio tasks serving one request each)
NProcs == 2
\* uploads admitted in one behaviour (each draws a fresh uuid)
MaxUploads == 2
\* chunks of the longest file part
MaxChunks == 2
\* length of the index enumerated by the initial states of SpecList
MaxRecords == 3

Procs == 1..NProcs

(* ----------------------------- values ---------------------------------- *)

\* Option::None
NoneV == "None"

\* client addresses, record names
Addrs == {"10.0.0.1", "6.6.6.6"}
Names == {"a.png", "b.png"}


\* multipart bodies: sequences of fields, in the order the client sends them
NamePart(n) == [field |-> "name", text |-> n, chunks |-> <<>>]
DescPart == [field |-> "desc", text |-> "d", chunks |-> <<>>]
FilePart(c) == [field |-> "file", text |-> "", chunks |-> c]

\* the chunks of the last file part of a body, <<>> when it has none
RECURSIVE SentFile(_)
SentFile(body) ==
    IF body = <<>> THEN <<>>
    ELSE IF body[Len(body)].field = "file" THEN body[Len(body)].chunks
    ELSE SentFile(SubSeq(body, 1, Len(body) - 1))

HasField(body, f) == \E i \in 1..Len(body) : body[i].field = f

\* a file part is a sequence of chunks; a chunk is one symbol
Long == [i \in 1..MaxChunks |-> i]

Bodies ==
    {<<>>, <<NamePart("a.png")>>, <<FilePart(<<1>>)>>,
     <<NamePart("a.png"), FilePart(<<1>>)>>,
     <<NamePart("b.png"), FilePart(<<1>>)>>,
     <<NamePart("b.png"), FilePart(Long)>>,
     <<FilePart(Long), DescPart, NamePart("a.png")>>}

\* the file contents clients send
Contents == {SentFile(b) : b \in Bodies}

(* --------------------------- Sha256 / hex ------------------------------ *)

\* Sha256::new(): the running digest is a number, injective in the chunk
\* sequence fed to it
Sha256New == 1

HasherUpdate(h, chunk) == h * 3 + chunk

RECURSIVE HashChunks(_, _)
HashChunks(h, chunks) ==
    IF chunks = <<>> THEN h
    ELSE HashChunks(HasherUpdate(h, Head(chunks)), Tail(chunks))

\* hex::encode(hasher.finalize()): the 64-character lowercase hex string
HexEncode(h) == "sha256:" \o ToString(h)

Digest(chunks) == HexEncode(HashChunks(Sha256New, chunks))

RECURSIVE Prefixes(_)
Prefixes(s) ==
    IF s = <<>> THEN {<<>>} ELSE {s} \cup Prefixes(SubSeq(s, 1, Len(s) - 1))

\* every hash string the bounded inputs can produce
HexStrings == {Digest(c) : c \in UNION {Prefixes(c) : c \in Contents}}

\* id.len() == 64 && id.chars().all(|c| c.is_ascii_hexdigit())
IsHex64(id) == id \in HexStrings

(* --------------------------- directories ------------------------------- *)

\* a directory maps file names to files
DirExists(dir, f) == f \in DOMAIN dir

DirPut(dir, f, v) ==
    [x \in (DOMAIN dir) \cup {f} |-> IF x = f THEN v ELSE dir[x]]

\* a removal that leaves the file where it is
RemoveFileNothing(dir, f) == dir

\* std::fs::remove_file / tokio::fs::remove_file with the result ignored:
\* unlinks the file when it is there, does nothing when it is not
RemoveFile(dir, f) == [x \in (DOMAIN dir) \ {f} |-> dir[x]]

EmptyDir == [x \in {} |-> 0]

(* ----------------------------- state ----------------------------------- *)

VARIABLES
    config,      \* AppState.config: the in-memory AppConfig
    disk,        \* the config file at AppState.config_path
    writer,      \* holder of the RwLock's write lock, 0 when free
    imagesDir,   \* images_dir(): hash |-> [bytes, by]
    thumbsDir,   \* thumbs_dir(): hash |-> [complete]
    tempDir,     \* temp_dir(): uuid |-> bytes written
    rq,          \* per handler: the request it serves and its locals
    nuuid,       \* uuids drawn so far (Uuid::new_v4 yields a fresh one)
    clock,       \* chrono::Utc::now(), as a logical clock
    gen,         \* the gen-token command, a process of its own
    hist         \* history: what has happened so far in this behaviour

vars == <<config, disk, writer, imagesDir, thumbsDir, tempDir,
          rq, nuuid, clock, gen, hist>>

dirs == <<imagesDir, thumbsDir, tempDir>>

\* ImageMeta { name, desc, hash, created_at }; by is the uuid of the upload
\* that built it (history only)
ImageMeta(name, desc, hash, created_at, by) ==
    [name |-> name, desc |-> desc, hash |-> hash, created_at |-> created_at,
     by |-> by]

NoMeta == ImageMeta("", "", "", 0, 0)

\* a handler that serves nothing
Idle ==
    [op |-> "none", pc |-> "idle", id |-> 0, addr |-> "", token |-> NoneV,
     body |-> <<>>,
     arg |-> "", is_thumb |-> FALSE, page |-> <<>>, page_size |-> <<>>,
     name |-> NoneV, desc |-> "", file_hash |-> "", file_received |-> FALSE,
     guard |-> FALSE, meta |-> NoMeta, img |-> NoMeta, hash_in_use |-> FALSE,
     result |-> "none", data |-> <<>>, total |-> 0,
     \* history of this request
     staged |-> FALSE, moved |-> FALSE, thumb |-> "none", faults |-> {},
     raced |-> FALSE, removed |-> {}, seen |-> FALSE]

\* AppConfig::default() with nothing in it: what a command that has loaded
\* nothing holds
NoConfig ==
    [tokens |-> {}, blacklist |-> {}, images |-> <<>>,
     thumbnail_pixels |-> "None"]

\* the gen-token command before it is run: n counts its runs
GenIdle ==
    [pc |-> "idle", token |-> NoneV, config |-> NoConfig, result |-> "none",
     n |-> 0]

\* a handler is free to take a request, is serving one, or has just returned
Free(p) == rq[p].pc = "idle"
Returned(p) == rq[p].pc = "done"
InFlight(p) == ~Free(p) /\ ~Returned(p)

Init ==
    /\ config = [tokens |-> {"tok"}, blacklist |-> {"6.6.6.6"},
                 images |-> <<>>, thumbnail_pixels |-> "Some(50000)"]
    /\ disk = config
    /\ writer = 0
    /\ imagesDir = EmptyDir
    /\ thumbsDir = EmptyDir
    /\ tempDir = EmptyDir
    /\ rq = [p \in Procs |-> Idle]
    /\ nuuid = 0
    /\ clock = 1
    /\ gen = GenIdle
    /\ hist = [uploadOk |-> FALSE, persistFailed |-> FALSE]

(* ------------------------- access control ------------------------------ *)

\* check_ip
check_ip(cfg, addr) ==
    IF addr \in cfg.blacklist THEN "Forbidden" ELSE "Ok"

\* check_token
check_token(cfg, token) ==
    IF token # NoneV /\ token \in cfg.tokens THEN "Ok" ELSE "Unauthorized"

\* the two checks in the other order
CheckAdminTokenFirst(cfg, addr, token) ==
    IF check_token(cfg, token) # "Ok" THEN check_token(cfg, token)
    ELSE check_ip(cfg, addr)

\* check_ip(..)?; check_token(..)?
CheckAdmin(cfg, addr, token) ==
    IF check_ip(cfg, addr) # "Ok" THEN check_ip(cfg, addr)
    ELSE check_token(cfg, token)

(* --------------------------- persistence ------------------------------- *)

SaveOutcomes == {"ok", "err"}

\* save_config: stores the whole snapshot, or fails and stores nothing
save_config(cfg, outcome) == IF outcome = "ok" THEN cfg ELSE disk

(* ------------------------ request bookkeeping -------------------------- *)

\* a returned request is observed as it returned: the response goes out
\* before the next step is taken
Quiet == \A p \in Procs : ~Returned(p)

\* handler p starts serving request r
Begin(p, r) == [rq EXCEPT ![p] = r]

\* a request is taken by the first free handler
Accepts(p) ==
    /\ Free(p)
    /\ \A q \in Procs : q < p => ~Free(q)

NewRequest(p, op, addr, token) ==
    [Idle EXCEPT !.op = op, !.addr = addr, !.token = token]

\* the handler returns `result`
Return(r, result) == [r EXCEPT !.pc = "done", !.result = result]

HistAfter(r) ==
    [uploadOk |-> hist.uploadOk \/ (r.op = "upload" /\ r.result = "Ok"),
     persistFailed |-> hist.persistFailed \/ "persist" \in r.faults]

\* a guard whose Drop removes nothing
GuardDropNothing(r, dir) == dir

\* Drop for TempFileGuard: removes the staging file unless persist() was
\* called
GuardDrop(r, dir) ==
    IF r.guard THEN RemoveFile(dir, r.id) ELSE dir

\* the RwLock: a read lock is granted while no writer holds the lock. Every
\* read lock is taken and released within one step, so the write lock is
\* granted whenever no writer holds the lock.
CanRead == writer = 0
CanWrite == writer = 0

(* ----------------------------- upload ---------------------------------- *)

\* the record built at lines 228-233, with the time read there
BuildMeta(r) == ImageMeta(r.name, r.desc, r.file_hash, clock, r.id)

\* lines 77-99: the permission check under a read lock, then the staging
\* path (a fresh uuid) and its guard
UploadAuth(p, addr, token, body) ==
    /\ Quiet
    /\ Accepts(p)
    /\ CanRead
    /\ LET res == CheckAdmin(config, addr, token)
           \* a rejected request's body is never read
           r0 == [NewRequest(p, "upload", addr, token) EXCEPT
                      !.body = IF res = "Ok" THEN body ELSE <<>>]
           r1 == IF res # "Ok" THEN Return(r0, res)
                 ELSE [r0 EXCEPT !.pc = "fields", !.guard = TRUE,
                                 !.id = nuuid + 1]
       IN /\ res = "Ok" => nuuid < MaxUploads
          /\ rq' = Begin(p, r1)
          /\ hist' = IF res # "Ok" THEN HistAfter(r1) ELSE hist
          /\ nuuid' = IF res = "Ok" THEN nuuid + 1 ELSE nuuid
    /\ UNCHANGED <<gen, config, disk, writer, dirs, clock>>

\* an I/O fault met while the body is received: none (at = 0), or at field
\* `at` one of text_err (field.text()), create_err (File::create),
\* write_err (write_all of chunk k), read_err (try_next before chunk k),
\* flush_err (flush)
NoFault == [at |-> 0, kind |-> "none", k |-> 0]

FaultInputs ==
    {NoFault} \cup
    {[at |-> i, kind |-> kd, k |-> j] :
        i \in 1..3,
        kd \in {"text_err", "create_err", "write_err", "read_err",
                "flush_err"},
        j \in 0..MaxChunks}

FaultFits(body, f) ==
    \/ f = NoFault
    \/ /\ f.at \in 1..Len(body)
       /\ IF body[f.at].field = "file"
          THEN \/ f.kind \in {"create_err", "flush_err"} /\ f.k = 0
               \/ f.kind \in {"write_err", "read_err"}
                  /\ f.k \in 1..Len(body[f.at].chunks)
          ELSE f.kind = "text_err" /\ f.k = 0

\* the staging file: absent, or the bytes written to it
NoFile == [exists |-> FALSE, bytes |-> <<>>]
FileOf(bytes) == [exists |-> TRUE, bytes |-> bytes]

\* lines 104-143: the `while let Ok(Some(field))` loop from field i on;
\* yields the locals, the staging file and the error returned by `?`
RECURSIVE Receive(_, _, _, _)
Receive(r, file, i, f) ==
    IF i > Len(r.body) THEN [r |-> r, file |-> file, err |-> "none"]
    ELSE
    LET part == r.body[i]
        hit == f.at = i
    IN
    IF part.field = "name"
    THEN IF hit THEN [r |-> r, file |-> file, err |-> "BadRequest"]
         ELSE Receive([r EXCEPT !.name = part.text], file, i + 1, f)
    ELSE IF part.field = "desc"
    THEN IF hit THEN [r |-> r, file |-> file, err |-> "BadRequest"]
         ELSE Receive([r EXCEPT !.desc = part.text], file, i + 1, f)
    ELSE \* the file part: create, hash and write each chunk, flush
    IF hit /\ f.kind = "create_err"
    THEN [r |-> r, file |-> file, err |-> "InternalError"]
    ELSE IF hit /\ f.kind = "write_err"
    THEN [r |-> r, file |-> FileOf(SubSeq(part.chunks, 1, f.k - 1)),
          err |-> "InternalError"]
    ELSE IF hit /\ f.kind = "flush_err"
    THEN [r |-> r, file |-> FileOf(part.chunks), err |-> "InternalError"]
    ELSE IF hit /\ f.kind = "read_err"
    THEN \* try_next() returned Err: the inner loop ends as at the end of
         \* the stream, and next_field() yields no further field
         LET got == SubSeq(part.chunks, 1, f.k - 1)
         IN [r |-> [r EXCEPT !.file_hash = Digest(got),
                             !.file_received = TRUE],
             file |-> FileOf(got), err |-> "none"]
    ELSE Receive([r EXCEPT !.file_hash = Digest(part.chunks),
                           !.file_received = TRUE],
                 FileOf(part.chunks), i + 1, f)

\* a validation that requires the name alone
ValidateNameOnly(r) == IF r.name = NoneV THEN "BadRequest" ELSE "Ok"

\* lines 145-148
Validate(r) ==
    IF r.name = NoneV THEN "BadRequest"
    ELSE IF ~r.file_received THEN "BadRequest"
    ELSE "Ok"

\* lines 104-148: the body is received into the staging file, then the name
\* and the file part are required
UploadFields(p, f) ==
    LET r == rq[p]
        got == Receive(r, NoFile, 1, f)
        staging == IF got.file.exists
                   THEN DirPut(tempDir, r.id, got.file.bytes) ELSE tempDir
        err == IF got.err # "none" THEN got.err ELSE Validate(got.r)
        rf == [got.r EXCEPT !.staged = got.file.exists,
                            !.faults = IF f = NoFault THEN {} ELSE {f.kind}]
    IN
    /\ Quiet
    /\ r.pc = "fields"
    /\ FaultFits(r.body, f)
    /\ UNCHANGED <<gen, config, disk, writer, imagesDir, thumbsDir,
                   nuuid, clock>>
    /\ IF err # "Ok"
       THEN \* the guard drops: whatever was staged is removed
            LET r1 == Return(rf, err)
            IN /\ rq' = [rq EXCEPT ![p] = r1]
               /\ tempDir' = GuardDrop(r, staging)
               /\ hist' = HistAfter(r1)
       ELSE /\ rq' = [rq EXCEPT ![p] = [rf EXCEPT !.pc = "check"]]
            /\ tempDir' = staging
            /\ UNCHANGED hist

\* an existence check that never finds the target
TargetExistsNever(h) == FALSE

\* std::path::Path::exists on images_dir/<hash>
TargetExists(h) == DirExists(imagesDir, h)

\* an existence check after which the guard is disarmed on both branches
UploadCheckDisarm(p) ==
    LET r == rq[p] IN
    /\ Quiet
    /\ r.pc = "check"
    /\ UNCHANGED <<gen, config, disk, writer, dirs, nuuid, hist>>
    /\ IF TargetExists(r.file_hash)
       THEN /\ rq' = [rq EXCEPT ![p] =
                   [r EXCEPT !.pc = "append", !.meta = BuildMeta(r),
                             !.guard = FALSE,
                             !.seen = DirExists(imagesDir, r.file_hash)]]
            /\ clock' = clock + 1
       ELSE /\ rq' = [rq EXCEPT ![p] =
                   [r EXCEPT !.pc = "rename",
                             !.seen = DirExists(imagesDir, r.file_hash)]]
            /\ UNCHANGED clock

\* lines 152-158: the existence check of the target path
UploadCheck(p) ==
    LET r == rq[p] IN
    /\ Quiet
    /\ r.pc = "check"
    /\ UNCHANGED <<gen, config, disk, writer, dirs, nuuid, hist>>
    /\ IF TargetExists(r.file_hash)
       THEN \* reuse the stored file; the guard stays armed until return
            /\ rq' = [rq EXCEPT ![p] =
                   [r EXCEPT !.pc = "append", !.meta = BuildMeta(r),
                             !.seen = DirExists(imagesDir, r.file_hash)]]
            /\ clock' = clock + 1
       ELSE /\ rq' = [rq EXCEPT ![p] =
                   [r EXCEPT !.pc = "rename",
                             !.seen = DirExists(imagesDir, r.file_hash)]]
            /\ UNCHANGED clock

\* results of fs::rename(temp, target): the file is placed (replacing what
\* is there) when the source is there, or the call fails, possibly because
\* the target now exists
RenameOutcomes(id, h) ==
    {"err"} \cup (IF DirExists(tempDir, id) THEN {"ok"} ELSE {})
            \cup (IF DirExists(imagesDir, h) THEN {"exists_err"} ELSE {})

ThumbnailsOn == config.thumbnail_pixels # NoneV

\* lines 160-168 (and 172, 225 when thumbnails are off)
UploadRename(p, outcome) ==
    LET r == rq[p] IN
    /\ Quiet
    /\ r.pc = "rename"
    /\ outcome \in RenameOutcomes(r.id, r.file_hash)
    /\ UNCHANGED <<gen, config, disk, writer, thumbsDir, nuuid>>
    /\ IF outcome = "ok"
       THEN LET r1 == [r EXCEPT !.moved = TRUE,
                                !.raced = DirExists(imagesDir, r.file_hash)]
            IN
            /\ imagesDir' = DirPut(imagesDir, r.file_hash,
                                   [bytes |-> tempDir[r.id], by |-> r.id])
            /\ tempDir' = RemoveFile(tempDir, r.id)
            /\ IF ThumbnailsOn
               THEN /\ rq' = [rq EXCEPT ![p] = [r1 EXCEPT !.pc = "thumb"]]
                    /\ UNCHANGED clock
               ELSE \* temp_guard.persist()
                    /\ rq' = [rq EXCEPT ![p] =
                           [r1 EXCEPT !.pc = "append", !.guard = FALSE,
                                      !.meta = BuildMeta(r)]]
                    /\ clock' = clock + 1
            /\ UNCHANGED hist
       ELSE LET r1 == Return([r EXCEPT !.faults = @ \cup {"rename_" \o outcome},
                                       !.raced = DirExists(imagesDir,
                                                           r.file_hash)],
                             "InternalError")
            IN /\ rq' = [rq EXCEPT ![p] = r1]
               /\ tempDir' = GuardDrop(r, tempDir)
               /\ hist' = HistAfter(r1)
               /\ UNCHANGED <<imagesDir, clock>>

\* the blocking task, first half (lines 177-204): open and decode the
\* original; a decode needs the file to be there
DecodeOutcomes(h) ==
    {"decode_err", "panic"} \cup (IF DirExists(imagesDir, h) THEN {"ok"} ELSE {})

\* a join that fails the upload on every thumbnail error
AfterThumbStrict(r, how) ==
    IF how # "ok"
    THEN Return([r EXCEPT !.thumb = how], "InternalError")
    ELSE [r EXCEPT !.thumb = how, !.pc = "append", !.guard = FALSE,
                   !.meta = BuildMeta(r)]

\* the upload after the blocking task has been joined (lines 217-233)
AfterThumb(r, how) ==
    IF how = "panic"
    THEN Return([r EXCEPT !.thumb = how, !.faults = @ \cup {"thumb_panic"}],
                "InternalError")
    ELSE [r EXCEPT !.thumb = how, !.pc = "append", !.guard = FALSE,
                   !.meta = BuildMeta(r)]

UploadThumbDecode(p, outcome) ==
    LET r == rq[p] IN
    /\ Quiet
    /\ r.pc = "thumb"
    /\ outcome \in DecodeOutcomes(r.file_hash)
    /\ UNCHANGED <<gen, config, disk, writer, imagesDir, thumbsDir, nuuid>>
    /\ IF outcome = "ok"
       THEN /\ rq' = [rq EXCEPT ![p] = [r EXCEPT !.pc = "thumb_write"]]
            /\ UNCHANGED <<tempDir, hist, clock>>
       ELSE LET r1 == AfterThumb(r, outcome)
            IN /\ rq' = [rq EXCEPT ![p] = r1]
               /\ tempDir' = IF outcome = "panic" THEN GuardDrop(r, tempDir)
                           ELSE tempDir
               /\ hist' = IF outcome = "panic" THEN HistAfter(r1) ELSE hist
               /\ clock' = IF outcome = "panic" THEN clock ELSE clock + 1

EncodeOutcomes == {"ok", "encode_err", "panic"}

\* the blocking task, second half (lines 207-208): File::create on the
\* thumbnail path, then the encoded thumbnail written to it
UploadThumbWrite(p, outcome) ==
    LET r == rq[p] IN
    /\ Quiet
    /\ r.pc = "thumb_write"
    /\ outcome \in EncodeOutcomes
    /\ UNCHANGED <<gen, config, disk, writer, imagesDir, nuuid>>
    /\ thumbsDir' = DirPut(thumbsDir, r.file_hash,
                           [complete |-> outcome = "ok"])
    /\ LET r1 == AfterThumb(r, outcome)
       IN /\ rq' = [rq EXCEPT ![p] = r1]
          /\ tempDir' = IF outcome = "panic" THEN GuardDrop(r, tempDir)
                      ELSE tempDir
          /\ hist' = IF outcome = "panic" THEN HistAfter(r1) ELSE hist
          /\ clock' = IF outcome = "panic" THEN clock ELSE clock + 1

\* an append that takes the record back when save_config fails
UploadAppendRollback(p, outcome) ==
    LET r == rq[p] IN
    /\ Quiet
    /\ r.pc = "append"
    /\ CanWrite
    /\ outcome \in SaveOutcomes
    /\ config' = IF outcome = "ok"
                 THEN [config EXCEPT !.images = Append(@, r.meta)]
                 ELSE config
    /\ disk' = save_config(config', outcome)
    /\ LET r1 == IF outcome = "ok" THEN Return(r, "Ok")
                 ELSE Return([r EXCEPT !.faults = @ \cup {"persist"}],
                             "InternalError")
       IN /\ rq' = [rq EXCEPT ![p] = r1]
          /\ hist' = HistAfter(r1)
    /\ tempDir' = GuardDrop(r, tempDir)
    /\ UNCHANGED <<gen, writer, imagesDir, thumbsDir, nuuid, clock>>

\* lines 235-250: the write lock, the push, save_config, the return
UploadAppend(p, outcome) ==
    LET r == rq[p] IN
    /\ Quiet
    /\ r.pc = "append"
    /\ CanWrite
    /\ outcome \in SaveOutcomes
    /\ config' = [config EXCEPT !.images = Append(@, r.meta)]
    /\ disk' = save_config(config', outcome)
    /\ LET r1 == IF outcome = "ok" THEN Return(r, "Ok")
                 ELSE Return([r EXCEPT !.faults = @ \cup {"persist"}],
                             "InternalError")
       IN /\ rq' = [rq EXCEPT ![p] = r1]
          /\ hist' = HistAfter(r1)
    /\ tempDir' = GuardDrop(r, tempDir)
    /\ UNCHANGED <<gen, writer, imagesDir, thumbsDir, nuuid, clock>>

(* ----------------------------- delete ---------------------------------- *)

\* config.images.iter().position(|i| i.name == name): 0 when there is none
RECURSIVE PositionFrom(_, _, _)
PositionFrom(images, name, i) ==
    IF i > Len(images) THEN 0
    ELSE IF images[i].name = name THEN i
    ELSE PositionFrom(images, name, i + 1)

Position(images, name) == PositionFrom(images, name, 1)

\* a removal that takes the last record whatever the index
RemoveLast(images, i) == SubSeq(images, 1, Len(images) - 1)

\* Vec::remove(index)
RemoveAt(images, i) ==
    SubSeq(images, 1, i - 1) \o SubSeq(images, i + 1, Len(images))

\* a scan that never finds another record of the hash
HashInUseNever(images, h) == FALSE

\* config.images.iter().any(|i| i.hash == img.hash), after the removal
HashInUse(images, h) == \E i \in 1..Len(images) : images[i].hash = h

\* lines 357-372: the permission check under a read lock, then the write
\* lock, the removal of the first record of that name and the scan for
\* other records of its hash. The check reads only the token and blacklist
\* sets, which no handler changes, so it is taken at the moment the write
\* lock is granted.
DeleteBegin(p, addr, token, name) ==
    LET r0 == [NewRequest(p, "delete", addr, token) EXCEPT !.arg = name]
        res == CheckAdmin(config, addr, token)
        index == Position(config.images, name)
    IN
    /\ Quiet
    /\ Accepts(p)
    /\ CanWrite
    /\ UNCHANGED <<gen, disk, dirs, nuuid, clock>>
    /\ IF res # "Ok" \/ index = 0
       THEN LET r1 == Return(r0, IF res # "Ok" THEN res ELSE "NotFound")
            IN /\ rq' = Begin(p, r1)
               /\ hist' = HistAfter(r1)
               /\ UNCHANGED <<config, writer>>
       ELSE LET img == config.images[index]
                rest == RemoveAt(config.images, index)
                used == HashInUse(rest, img.hash)
            IN /\ config' = [config EXCEPT !.images = rest]
               /\ writer' = p
               /\ rq' = Begin(p, [r0 EXCEPT
                                     !.img = img, !.hash_in_use = used,
                                     !.pc = IF used THEN "save"
                                            ELSE "rm_image"])
               /\ UNCHANGED hist

\* line 376, with the write lock held
DeleteRemoveImage(p) ==
    LET r == rq[p] IN
    /\ Quiet
    /\ r.pc = "rm_image"
    /\ imagesDir' = RemoveFile(imagesDir, r.img.hash)
    /\ rq' = [rq EXCEPT ![p] = [r EXCEPT !.pc = "rm_thumb",
                                         !.removed = @ \cup {"image"}]]
    /\ UNCHANGED <<gen, config, disk, writer, thumbsDir, tempDir, nuuid,
                   clock, hist>>

\* line 377, with the write lock held
DeleteRemoveThumb(p) ==
    LET r == rq[p] IN
    /\ Quiet
    /\ r.pc = "rm_thumb"
    /\ thumbsDir' = RemoveFile(thumbsDir, r.img.hash)
    /\ rq' = [rq EXCEPT ![p] = [r EXCEPT !.pc = "save",
                                         !.removed = @ \cup {"thumb"}]]
    /\ UNCHANGED <<gen, config, disk, writer, imagesDir, tempDir, nuuid,
                   clock, hist>>

\* lines 380-388: save_config, then the lock is released on return
DeleteSave(p, outcome) ==
    LET r == rq[p] IN
    /\ Quiet
    /\ r.pc = "save"
    /\ outcome \in SaveOutcomes
    /\ disk' = save_config(config, outcome)
    /\ writer' = 0
    /\ LET r1 == IF outcome = "ok" THEN Return(r, "NoContent")
                 ELSE Return([r EXCEPT !.faults = @ \cup {"persist"}],
                             "InternalError")
       IN /\ rq' = [rq EXCEPT ![p] = r1]
          /\ hist' = HistAfter(r1)
    /\ UNCHANGED <<gen, config, dirs, nuuid, clock>>

(* ---------------------------- download --------------------------------- *)

DownloadIds == Names \cup {Digest(<<1>>), "nope"}
ThumbParams == {NoneV, "true", "false"}

\* a lookup that takes a 64-character hex identifier as a hash before it
\* looks for a record of that name
ResolveIdHashFirst(images, id) ==
    IF IsHex64(id) THEN id
    ELSE IF Position(images, id) # 0 THEN images[Position(images, id)].hash
    ELSE NoneV

\* lines 269-275: the name first, then the identifier taken as a hash
ResolveId(images, id) ==
    IF Position(images, id) # 0 THEN images[Position(images, id)].hash
    ELSE IF IsHex64(id) THEN id
    ELSE NoneV

\* a selection that falls back to the original when the thumbnail is absent
SelectedFileFallback(is_thumb, hash) ==
    IF is_thumb /\ DirExists(thumbsDir, hash) THEN <<"thumbs", hash>>
    ELSE <<"images", hash>>

\* lines 277-283: the path the request selects, <<directory, file name>>
SelectedFile(is_thumb, hash) ==
    IF is_thumb THEN <<"thumbs", hash>> ELSE <<"images", hash>>

\* the directory a path is in
DirOf(path) == IF path[1] = "thumbs" THEN thumbsDir ELSE imagesDir

\* results of File::open on a file that is there
OpenOutcomes == {"ok", "open_err"}

\* lines 259-310: under one read lock, check_ip, the lookup, path.exists()
\* and File::open; the file opened is the body of the response
DownloadImage(p, addr, id, thumb, open) ==
    /\ Quiet
    /\ Accepts(p)
    /\ CanRead
    /\ open \in OpenOutcomes
    /\ LET r0 == [NewRequest(p, "download", addr, NoneV) EXCEPT !.arg = id]
           res == check_ip(config, addr)
           hash == ResolveId(config.images, id)
           \* params.thumb.unwrap_or(false)
           is_thumb == thumb = "true"
           path == SelectedFile(is_thumb, hash)
           r1 == [r0 EXCEPT !.file_hash = hash, !.is_thumb = is_thumb]
           r2 == IF res # "Ok" THEN Return(r0, res)
                 ELSE IF hash = NoneV THEN Return(r0, "NotFound")
                 ELSE IF ~DirExists(DirOf(path), path[2])
                 THEN Return(r1, "NotFound")
                 ELSE IF open = "open_err"
                 THEN Return([r1 EXCEPT !.faults = {"open_err"}], "NotFound")
                 ELSE Return([r1 EXCEPT !.data = <<DirOf(path)[path[2]]>>],
                             "Ok")
       IN /\ open = "open_err" => "open_err" \in r2.faults
          /\ rq' = Begin(p, r2)
          /\ hist' = HistAfter(r2)
    /\ UNCHANGED <<gen, config, disk, writer, dirs, nuuid, clock>>

(* ------------------------------ list ----------------------------------- *)

\* usize: 64 bits, as four 16-bit limbs, least significant first
LimbBase == 65536
Limbs == 4

U(n) == <<n, 0, 0, 0>>

USmall(x) == \A i \in 2..Limbs : x[i] = 0

\* Option<usize>::None
NoUsize == <<>>

\* x - 1 for x >= 1
RECURSIVE USub1From(_, _)
USub1From(x, i) ==
    IF x[i] > 0 THEN [x EXCEPT ![i] = @ - 1]
    ELSE USub1From([x EXCEPT ![i] = LimbBase - 1], i + 1)

USub1(x) == USub1From(x, 1)

\* x * k for a small k: the product modulo 2^64, and whether it overflowed
RECURSIVE UMulFrom(_, _, _, _)
UMulFrom(x, k, i, carry) ==
    IF i > Limbs THEN [value |-> x, overflow |-> carry # 0]
    ELSE LET t == x[i] * k + carry
         IN UMulFrom([x EXCEPT ![i] = t % LimbBase], k, i + 1, t \div LimbBase)

UMul(x, k) == UMulFrom(x, k, 1, 0)

\* params.page.unwrap_or(1).max(1)
PageOf(page) ==
    IF page = NoUsize THEN U(1) ELSE IF page = U(0) THEN U(1) ELSE page

\* params.page_size.unwrap_or(20).clamp(1, 100)
PageSizeOf(page_size) ==
    IF page_size = NoUsize THEN 20
    ELSE IF page_size = U(0) THEN 1
    ELSE IF ~USmall(page_size) \/ page_size[1] > 100 THEN 100
    ELSE page_size[1]

\* (page - 1) * page_size
SkipOf(page, page_size) == UMul(USub1(page), page_size)

Reverse(s) == [i \in 1..Len(s) |-> s[Len(s) + 1 - i]]

Min(a, b) == IF a < b THEN a ELSE b

\* iter().rev().skip(skip).take(page_size).collect()
PageData(images, skip, page_size) ==
    LET n == Len(images)
        from == IF ~USmall(skip) \/ skip[1] >= n THEN n ELSE skip[1]
    IN SubSeq(Reverse(images), from + 1, Min(from + page_size, n))

\* lines 319-349; `checks` is the build's overflow-checks setting: with it
\* an overflowing multiplication panics, without it the product wraps
ListImages(p, addr, page, page_size, checks) ==
    /\ Quiet
    /\ Accepts(p)
    /\ CanRead
    /\ LET r0 == [NewRequest(p, "list", addr, NoneV) EXCEPT
                      !.page = page, !.page_size = page_size]
           res == check_ip(config, addr)
           pg == PageOf(page)
           ps == PageSizeOf(page_size)
           skip == SkipOf(pg, ps)
           r1 == IF res # "Ok" THEN Return(r0, res)
                 ELSE IF skip.overflow /\ checks THEN Return(r0, "Panic")
                 ELSE Return([r0 EXCEPT
                                 !.total = Len(config.images),
                                 !.data = PageData(config.images, skip.value,
                                                   ps)], "Ok")
       IN /\ rq' = Begin(p, r1)
          /\ hist' = HistAfter(r1)
    /\ UNCHANGED <<gen, config, disk, writer, dirs, nuuid, clock>>

(* ---------------------------- gen-token -------------------------------- *)

\* runs of the gen-token command in one behaviour
MaxGen == 1

LoadOutcomes == {"ok", "err"}

\* (0..32).map(..).collect(): 32 random characters, a token no earlier run
\* and no configuration holds
NewToken(n) == "gen" \o ToString(n)

\* main.rs lines 57-68: the token is drawn, load_config reads the config
\* file into a local AppConfig, the token is inserted into the local copy;
\* a failed load ends the command
GenLoad(outcome) ==
    /\ gen.pc \in {"idle", "done"}
    /\ gen.n < MaxGen
    /\ outcome \in LoadOutcomes
    /\ LET token == NewToken(gen.n + 1) IN
       gen' = IF outcome = "ok"
              THEN [pc |-> "loaded", token |-> token,
                    config |-> [disk EXCEPT !.tokens = @ \cup {token}],
                    result |-> "none", n |-> gen.n + 1]
              ELSE [pc |-> "done", token |-> token, config |-> NoConfig,
                    result |-> "err", n |-> gen.n + 1]
    /\ UNCHANGED <<config, disk, writer, dirs, rq, nuuid, clock, hist>>

\* main.rs lines 69-72: save_config stores the local copy over the config
\* file, the token is printed
GenStore(outcome) ==
    /\ gen.pc = "loaded"
    /\ outcome \in SaveOutcomes
    /\ disk' = save_config(gen.config, outcome)
    /\ gen' = [gen EXCEPT !.pc = "done",
                          !.result = IF outcome = "ok" THEN "ok" ELSE "err"]
    /\ UNCHANGED <<config, writer, dirs, rq, nuuid, clock, hist>>

(* ------------------------- the specification --------------------------- *)

\* the list parameters of the requests of Spec
SpecPages == {NoUsize, U(2)}
SpecPageSizes == {NoUsize, U(1)}

\* the response has been sent: the handler is free again
Respond(p) ==
    /\ Returned(p)
    /\ rq' = [rq EXCEPT ![p] = Idle]
    /\ UNCHANGED <<gen, config, disk, writer, dirs, nuuid, clock, hist>>

\* the requests clients send: <<address, token, body or name>> for upload
\* and delete, <<address, identifier, thumb>> for download, <<address, page,
\* page_size>> for list
Admin == <<"10.0.0.1", "tok">>
Rejected == {<<"10.0.0.1", NoneV>>, <<"10.0.0.1", "bad">>,
             <<"6.6.6.6", "tok">>, <<"6.6.6.6", NoneV>>}

FullBody == <<NamePart("a.png"), FilePart(<<1>>)>>

\* an upload whose name is the 64-character hex hash of other bytes
HexNamedBody == <<NamePart(Digest(<<1>>)), FilePart(Long)>>

\* the requests of Spec: concurrent handlers, admitted uploads and deletes
UploadRequests == {<<Admin[1], Admin[2], b>> : b \in Bodies}
DeleteRequests == {<<Admin[1], Admin[2], n>> : n \in Names}
DownloadRequests == {<<"10.0.0.1", "a.png", NoneV>>}
ListRequests == {<<"10.0.0.1", NoUsize, NoUsize>>}

\* the further requests of SpecSeq: rejected callers, every identifier
SeqUploadRequests ==
    UploadRequests \cup {<<c[1], c[2], FullBody>> : c \in Rejected}
                   \cup {<<Admin[1], Admin[2], HexNamedBody>>}
SeqDeleteRequests ==
    DeleteRequests \cup {<<c[1], c[2], "a.png">> : c \in Rejected}
SeqDownloadRequests ==
    {<<"10.0.0.1", i, t>> : i \in DownloadIds, t \in ThumbParams}
    \cup {<<"6.6.6.6", "a.png", NoneV>>}
SeqListRequests ==
    {<<"10.0.0.1", pg, ps>> : pg \in SpecPages, ps \in SpecPageSizes}
    \cup {<<"6.6.6.6", NoUsize, NoUsize>>}

Next ==
    \/ \E p \in Procs, q \in UploadRequests : UploadAuth(p, q[1], q[2], q[3])
    \/ \E p \in Procs, f \in FaultInputs : UploadFields(p, f)
    \/ \E p \in Procs : UploadCheck(p)
    \/ \E p \in Procs, o \in {"ok", "err", "exists_err"} : UploadRename(p, o)
    \/ \E p \in Procs, o \in {"ok", "decode_err", "panic"} :
           UploadThumbDecode(p, o)
    \/ \E p \in Procs, o \in EncodeOutcomes : UploadThumbWrite(p, o)
    \/ \E p \in Procs, o \in SaveOutcomes : UploadAppend(p, o)
    \/ \E p \in Procs, q \in DeleteRequests : DeleteBegin(p, q[1], q[2], q[3])
    \/ \E p \in Procs : DeleteRemoveImage(p)
    \/ \E p \in Procs : DeleteRemoveThumb(p)
    \/ \E p \in Procs, o \in SaveOutcomes : DeleteSave(p, o)
    \/ \E p \in Procs, q \in DownloadRequests, o \in OpenOutcomes :
           DownloadImage(p, q[1], q[2], q[3], o)
    \/ \E p \in Procs, q \in ListRequests :
           ListImages(p, q[1], q[2], q[3], FALSE)
    \/ \E p \in Procs : Respond(p)

Spec == Init /\ [][Next]_vars

(* ------------------- one request after the other ----------------------- *)

\* a single handler: each request returns before the next one is taken
NextSeq ==
    \/ \E q \in SeqUploadRequests : UploadAuth(1, q[1], q[2], q[3])
    \/ \E f \in FaultInputs : UploadFields(1, f)
    \/ UploadCheck(1)
    \/ \E o \in {"ok", "err", "exists_err"} : UploadRename(1, o)
    \/ \E o \in {"ok", "decode_err", "panic"} : UploadThumbDecode(1, o)
    \/ \E o \in EncodeOutcomes : UploadThumbWrite(1, o)
    \/ \E o \in SaveOutcomes : UploadAppend(1, o)
    \/ \E q \in SeqDeleteRequests : DeleteBegin(1, q[1], q[2], q[3])
    \/ DeleteRemoveImage(1)
    \/ DeleteRemoveThumb(1)
    \/ \E o \in SaveOutcomes : DeleteSave(1, o)
    \/ \E q \in SeqDownloadRequests, o \in OpenOutcomes :
           DownloadImage(1, q[1], q[2], q[3], o)
    \/ \E q \in SeqListRequests : ListImages(1, q[1], q[2], q[3], FALSE)
    \/ Respond(1)

SpecSeq == Init /\ [][NextSeq]_vars

(* ------------------------ list over any index -------------------------- *)

\* the hashes of the records of the enumerated indexes
ListHashes == {Digest(<<1>>), Digest(Long)}

ListNames == <<"a.png", "b.png", "c.png", "d.png">>

\* an index of n records as n successful uploads leave it: created in
\* insertion order, each record's file stored
InitList ==
    /\ \E n \in 0..MaxRecords : \E hs \in [1..n -> ListHashes] :
          config = [tokens |-> {"tok"}, blacklist |-> {"6.6.6.6"},
                    images |-> [i \in 1..n |->
                                   ImageMeta(ListNames[i], "d", hs[i], i, i)],
                    thumbnail_pixels |-> "Some(50000)"]
    /\ disk = config
    /\ writer = 0
    /\ imagesDir = [h \in {config.images[i].hash : i \in 1..Len(config.images)}
                      |-> [bytes |-> <<1>>, by |-> 1]]
    /\ thumbsDir = EmptyDir
    /\ tempDir = EmptyDir
    /\ rq = [p \in Procs |-> Idle]
    /\ nuuid = Len(config.images)
    /\ clock = Len(config.images) + 1
    /\ gen = GenIdle
    /\ hist = [uploadOk |-> Len(config.images) > 0, persistFailed |-> FALSE]

\* 2^62 + 1: with page_size 4 the product (page - 1) * page_size is 2^64
HugePage == <<1, 0, 0, 16384>>

ListPages == {NoUsize, U(0), U(1), U(2), U(3), U(4), HugePage}
ListPageSizes == {NoUsize, U(0), U(1), U(2), U(4), U(101), HugePage}

NextList ==
    \/ \E addr \in Addrs, pg \in ListPages, ps \in ListPageSizes,
          checks \in BOOLEAN : ListImages(1, addr, pg, ps, checks)
    \/ Respond(1)

SpecList == InitList /\ [][NextList]_vars

(* ------------------- the server and gen-token -------------------------- *)

\* the server, one request after the other, and the gen-token command run
\* on the same config file while the server is up
NextGen ==
    \/ \E q \in UploadRequests : UploadAuth(1, q[1], q[2], q[3])
    \/ \E f \in FaultInputs : UploadFields(1, f)
    \/ UploadCheck(1)
    \/ \E o \in {"ok", "err", "exists_err"} : UploadRename(1, o)
    \/ \E o \in {"ok", "decode_err", "panic"} : UploadThumbDecode(1, o)
    \/ \E o \in EncodeOutcomes : UploadThumbWrite(1, o)
    \/ \E o \in SaveOutcomes : UploadAppend(1, o)
    \/ \E q \in DeleteRequests : DeleteBegin(1, q[1], q[2], q[3])
    \/ DeleteRemoveImage(1)
    \/ DeleteRemoveThumb(1)
    \/ \E o \in SaveOutcomes : DeleteSave(1, o)
    \/ Respond(1)
    \/ \E o \in LoadOutcomes : GenLoad(o)
    \/ \E o \in SaveOutcomes : GenStore(o)

SpecGen == Init /\ [][NextGen]_vars

(* ------------------------------ claims --------------------------------- *)

AllIdle == \A p \in Procs : Free(p)

\* the upload served by handler p has returned
UploadReturned(p) == Returned(p) /\ rq[p].op = "upload"

\* C1: every file of the staging directory belongs to an upload that has
\* not returned yet: once upload_image has returned, on whatever path, the
\* staging directory holds no file created by that request.
C1_NoOrphanedStaging ==
    \A f \in DOMAIN tempDir :
        \E p \in Procs : InFlight(p) /\ rq[p].op = "upload" /\ rq[p].id = f

\* an upload that created its staging file and never moved it has returned
C1_Witness ==
    \E p \in Procs :
        /\ UploadReturned(p)
        /\ rq[p].staged /\ ~rq[p].moved
        /\ rq[p].id \notin DOMAIN tempDir

\* C2: with no persistence failure, whenever an upload has returned success
\* and no operation is in progress, every record of the in-memory index has
\* a file named by its hash in the images directory.
C2_ReferentialIntegrity ==
    (AllIdle /\ hist.uploadOk /\ ~hist.persistFailed) =>
        \A i \in 1..Len(config.images) :
            DirExists(imagesDir, config.images[i].hash)

\* the records of the index built by upload id
RecordsBy(id) == {i \in 1..Len(config.images) : config.images[i].by = id}

\* some record of the index has hash h
Referenced(h) == \E i \in 1..Len(config.images) : config.images[i].hash = h

\* the upload served by p met no fault and sent a name and a file part,
\* and the index holds a record of another upload with the same hash under
\* another name
SecondOfTwo(p) ==
    /\ UploadReturned(p)
    /\ rq[p].faults = {}
    /\ rq[p].name # NoneV /\ rq[p].file_received
    /\ \E i \in 1..Len(config.images) :
          /\ config.images[i].by # rq[p].id
          /\ config.images[i].hash = rq[p].file_hash
          /\ config.images[i].name # rq[p].name

\* C3: with one request after the other, an upload of bytes already indexed
\* under another name succeeds, appends a second record with the same hash,
\* leaves the one stored file of that hash as it was, does not move its
\* staging file and does not run the thumbnail step.
C3_SecondUploadDedups ==
    \A p \in Procs :
        SecondOfTwo(p)
        => /\ rq[p].result = "Ok"
           /\ ~rq[p].moved
           /\ rq[p].thumb = "none"
           /\ config.images[Len(config.images)] = rq[p].meta
           /\ rq[p].meta.by = rq[p].id
           /\ rq[p].meta.hash = rq[p].file_hash
           /\ DirExists(imagesDir, rq[p].file_hash)
           /\ imagesDir[rq[p].file_hash].by # rq[p].id
           /\ ~DirExists(tempDir, rq[p].id)

C3_Witness == \E p \in Procs : SecondOfTwo(p) /\ rq[p].result = "Ok"

\* C4: an upload whose move found the destination already placed by a
\* concurrent upload of the same bytes returns success, whether the move
\* replaced the file or reported that the destination exists.
C4_RacingMoveSucceeds ==
    \A p \in Procs :
        (/\ UploadReturned(p)
         /\ rq[p].raced
         /\ rq[p].faults \subseteq {"rename_exists_err"})
        => rq[p].result = "Ok"

\* C5: a delete that found its record has removed the original and the
\* thumbnail of the record's hash exactly when no record remaining in the
\* index has that hash, and at no moment has a delete removed a file whose
\* hash a record of the index references.
C5_DeleteDedupAware ==
    \A p \in Procs :
        (rq[p].op = "delete" /\ rq[p].img # NoMeta) =>
            /\ rq[p].removed # {} => ~Referenced(rq[p].img.hash)
            /\ Returned(p) =>
                  rq[p].removed = IF Referenced(rq[p].img.hash) THEN {}
                                  ELSE {"image", "thumb"}

\* a delete has returned having left the file of a hash that another
\* record still references
C5_Witness ==
    \E p \in Procs :
        /\ Returned(p) /\ rq[p].op = "delete" /\ rq[p].img # NoMeta
        /\ Referenced(rq[p].img.hash)
        /\ rq[p].removed = {}
        /\ DirExists(imagesDir, rq[p].img.hash)

\* the page number and the page size a list request asks for, as the
\* claim reads them: a page below 1 is page 1, a size outside [1,100] is
\* clamped, absent parameters are page 1 and size 20
AskedPage(page) == IF page \in {NoUsize, U(0)} THEN U(1) ELSE page

AskedSize(page_size) ==
    IF page_size = NoUsize THEN 20
    ELSE IF page_size = U(0) THEN 1
    ELSE IF page_size[2] # 0 \/ page_size[3] # 0 \/ page_size[4] # 0 THEN 100
    ELSE IF page_size[1] > 100 THEN 100
    ELSE page_size[1]

\* the records at positions (p-1)*k .. p*k-1 of the reversed insertion
\* order; a page whose number exceeds the number of records is past the end
ExpectedPage(images, page, k) ==
    LET n == Len(images)
        newestFirst == [i \in 1..n |-> images[n + 1 - i]]
        pastEnd == page[2] # 0 \/ page[3] # 0 \/ page[4] # 0 \/ page[1] > n
        from == (page[1] - 1) * k
        to == IF from + k < n THEN from + k ELSE n
    IN IF pastEnd THEN <<>> ELSE SubSeq(newestFirst, from + 1, to)

\* C6: a list request from an address that is not blacklisted returns
\* total = N and the records at positions (p-1)*k .. p*k-1 of the reversed
\* insertion order, pages past the end being empty.
C6_Pagination ==
    \A p \in Procs :
        (Returned(p) /\ rq[p].op = "list" /\ rq[p].addr \notin config.blacklist)
        => /\ rq[p].result = "Ok"
           /\ rq[p].total = Len(config.images)
           /\ rq[p].data = ExpectedPage(config.images, AskedPage(rq[p].page),
                                        AskedSize(rq[p].page_size))

\* the caller of the request that handler p takes in this step is refused
Refused(p) ==
    \/ rq'[p].addr \in config.blacklist
    \/ rq'[p].op \in {"upload", "delete"}
       /\ (rq'[p].token = NoneV \/ rq'[p].token \notin config.tokens)

\* C7: upload and delete from a blacklisted address fail with Forbidden,
\* from another address with a missing or invalid token with Unauthorized,
\* and leave the index and the images and thumbnails directories unchanged;
\* download and list are refused exactly for blacklisted addresses, with
\* Forbidden, and never ask for a token.
C7_AccessControl ==
    [][\A p \in Procs :
          (Free(p) /\ rq'[p].op # "none") =>
             /\ Refused(p) =>
                   /\ rq'[p].pc = "done"
                   /\ rq'[p].result =
                          IF rq'[p].addr \in config.blacklist
                          THEN "Forbidden" ELSE "Unauthorized"
                   /\ UNCHANGED <<config, disk, imagesDir, thumbsDir>>
             /\ ~Refused(p) =>
                   /\ rq'[p].result \notin {"Forbidden", "Unauthorized"}
                   /\ rq'[p].op = "list" => rq'[p].result = "Ok"
                   /\ (/\ rq'[p].op = "download"
                       /\ ~rq'[p].is_thumb
                       /\ rq'[p].faults = {}
                       /\ Position(config.images, rq'[p].arg) # 0)
                      => rq'[p].result = "Ok"]_vars

\* a blacklisted caller holding a valid token has been refused an upload
C7_Witness ==
    \E p \in Procs :
        /\ UploadReturned(p)
        /\ rq[p].addr \in config.blacklist /\ rq[p].token \in config.tokens
        /\ rq[p].result = "Forbidden"

\* the upload served by p was admitted and its body lacks the name field
\* or the file part
LacksNameOrFile(p) ==
    /\ UploadReturned(p)
    /\ CheckAdmin(config, rq[p].addr, rq[p].token) = "Ok"
    /\ ~HasField(rq[p].body, "name") \/ ~HasField(rq[p].body, "file")

\* nothing of upload p has been committed: no file moved into the images
\* directory, no thumbnail step run, no record appended
NothingCommitted(p) ==
    /\ ~rq[p].moved
    /\ rq[p].thumb = "none"
    /\ RecordsBy(rq[p].id) = {}
    /\ \A h \in DOMAIN imagesDir : imagesDir[h].by # rq[p].id

\* faults of the staging of the file part: File::create, write_all, flush
StagingFaults == {"create_err", "write_err", "flush_err"}

ThumbErrorTolerated ==
    \A p \in Procs :
        (rq[p].op = "upload" /\ rq[p].thumb \in {"decode_err", "encode_err"})
        => /\ rq[p].moved
           /\ rq[p].pc \in {"append", "done"}
           /\ Returned(p) =>
                 /\ RecordsBy(rq[p].id) # {}
                 /\ rq[p].result =
                        IF "persist" \in rq[p].faults
                        THEN "InternalError" ELSE "Ok"

\* an upload whose thumbnail task terminated abnormally has moved its
\* staging file, returns InternalError and appends no record
ThumbPanicFails ==
    \A p \in Procs :
        (rq[p].op = "upload" /\ rq[p].thumb = "panic")
        => /\ rq[p].moved
           /\ Returned(p)
           /\ rq[p].result = "InternalError"
           /\ RecordsBy(rq[p].id) = {}

PersistFails(p) == "persist" \in rq'[p].faults /\ "persist" \notin rq[p].faults

\* C10: when the persist call of an upload or a delete fails, the request
\* returns InternalError, the index in memory keeps the mutation (the
\* record appended by the upload, the removal made by the delete) and the
\* images and thumbnails directories are left as they are.
C10_PersistFailure ==
    [][\A p \in Procs :
          PersistFails(p) =>
             /\ rq'[p].pc = "done"
             /\ rq'[p].result = "InternalError"
             /\ UNCHANGED <<imagesDir, thumbsDir>>
             /\ rq[p].op = "upload" =>
                   /\ config'.images = Append(config.images, rq[p].meta)
                   /\ rq[p].meta.name = rq[p].name
                   /\ rq[p].meta.hash = rq[p].file_hash
             /\ rq[p].op = "delete" =>
                   /\ config' = config
                   /\ \A i \in 1..Len(config'.images) :
                         config'.images[i] # rq[p].img
                   /\ rq[p].img.name = rq[p].arg]_vars

\* a delete whose persist call failed has returned InternalError having
\* removed the last record of a hash and its file
C10_Witness ==
    \E p \in Procs :
        /\ Returned(p) /\ rq[p].op = "delete"
        /\ "persist" \in rq[p].faults
        /\ rq[p].result = "InternalError"
        /\ rq[p].removed = {"image", "thumb"}
        /\ \A i \in 1..Len(config.images) : config.images[i] # rq[p].img

\* the records of an index, as a set
RecordSet(images) == {images[i] : i \in 1..Len(images)}

\* C11 as claimed: an upload that returns an error of any kind leaves no
\* record of its own in the index.
C11_FailedUploadLeavesNoRecord ==
    \A p \in Procs :
        (UploadReturned(p) /\ rq[p].result # "Ok") => RecordsBy(rq[p].id) = {}

\* C11: a record enters the index only as the record of an upload that
\* reaches its append, which returns success or, when the persist call
\* fails, InternalError; a record leaves the index only in a step of a
\* delete naming it; an upload that returns any other error leaves no
\* record of its own in the index.
C11_RecordLifecycle ==
    [][/\ \A rec \in RecordSet(config'.images) \ RecordSet(config.images) :
             \E p \in Procs :
                 /\ rq[p].op = "upload" /\ rq[p].pc = "append"
                 /\ rec = rq[p].meta
                 /\ rq'[p].pc = "done"
                 /\ \/ rq'[p].result = "Ok"
                    \/ /\ rq'[p].result = "InternalError"
                       /\ "persist" \in rq'[p].faults
       /\ \A rec \in RecordSet(config.images) \ RecordSet(config'.images) :
             \E p \in Procs :
                 /\ Free(p)
                 /\ rq'[p].op = "delete"
                 /\ rq'[p].arg = rec.name
                 /\ rq'[p].img = rec
       /\ \A p \in Procs :
             (/\ rq'[p].op = "upload" /\ rq'[p].pc = "done"
              /\ rq'[p].result # "Ok"
              /\ "persist" \notin rq'[p].faults)
             => \A rec \in RecordSet(config'.images) : rec.by # rq'[p].id
      ]_vars

\* an upload whose persist call failed has returned InternalError and its
\* record is in the index
C11_Witness ==
    \E p \in Procs :
        /\ UploadReturned(p)
        /\ rq[p].result = "InternalError"
        /\ "persist" \in rq[p].faults
        /\ RecordsBy(rq[p].id) # {}

\* the download served by handler p has returned to a caller that is not
\* blacklisted
DownloadReturned(p) ==
    /\ Returned(p) /\ rq[p].op = "download"
    /\ rq[p].addr \notin config.blacklist

\* the positions of the records named id
Named(id) == {i \in 1..Len(config.images) : config.images[i].name = id}

\* the hash the claim resolves an identifier to, NoneV when it has none
ClaimedHash(id) ==
    IF Named(id) # {}
    THEN config.images[CHOOSE i \in Named(id) :
                           \A j \in Named(id) : i <= j].hash
    ELSE IF IsHex64(id) THEN id
    ELSE NoneV

\* the directory the request reads: thumbnails when thumb is true
ClaimedDir(p) == IF rq[p].is_thumb THEN thumbsDir ELSE imagesDir

\* C12: a download uses the hash of the first record named by its
\* identifier, also when the identifier is a 64-character hex string;
\* with no such record a 64-character hex identifier is the hash itself,
\* and the file stored under it is served; any other identifier fails with
\* NotFound.
C12_DownloadResolution ==
    \A p \in Procs :
        DownloadReturned(p) =>
            LET h == ClaimedHash(rq[p].arg) IN
            IF h = NoneV
            THEN rq[p].result = "NotFound" /\ rq[p].data = <<>>
            ELSE /\ rq[p].file_hash = h
                 /\ (DirExists(ClaimedDir(p), h) /\ rq[p].faults = {})
                    => /\ rq[p].result = "Ok"
                       /\ rq[p].data = <<ClaimedDir(p)[h]>>

\* a stored file has been served by its hash, which no record has as name
C12_Witness ==
    \E p \in Procs :
        /\ DownloadReturned(p)
        /\ IsHex64(rq[p].arg) /\ Named(rq[p].arg) = {}
        /\ ~rq[p].is_thumb
        /\ rq[p].result = "Ok"
        /\ rq[p].data = <<imagesDir[rq[p].arg]>>

\* C13: a download whose identifier resolves to a hash fails with NotFound
\* whenever the file of that hash is absent from the selected directory; a
\* thumbnail request never gets the original.
C13_AbsentFileNotFound ==
    \A p \in Procs :
        (DownloadReturned(p) /\ ClaimedHash(rq[p].arg) # NoneV) =>
            LET h == ClaimedHash(rq[p].arg) IN
            /\ ~DirExists(ClaimedDir(p), h)
               => rq[p].result = "NotFound" /\ rq[p].data = <<>>
            /\ rq[p].result = "Ok" => rq[p].data = <<ClaimedDir(p)[h]>>
            /\ (rq[p].is_thumb /\ DirExists(imagesDir, h))
               => rq[p].data # <<imagesDir[h]>>

\* a thumbnail request for a hash whose original is stored and whose
\* thumbnail was not generated has failed with NotFound
C13_Witness ==
    \E p \in Procs :
        /\ DownloadReturned(p)
        /\ rq[p].is_thumb
        /\ ClaimedHash(rq[p].arg) # NoneV
        /\ DirExists(imagesDir, ClaimedHash(rq[p].arg))
        /\ ~DirExists(thumbsDir, ClaimedHash(rq[p].arg))
        /\ rq[p].result = "NotFound"

\* the delete served by handler p has returned after removing a record
\* that was the only one referencing its hash
DeletedOnlyReference(p) ==
    /\ Returned(p) /\ rq[p].op = "delete" /\ rq[p].img # NoMeta
    /\ ~Referenced(rq[p].img.hash)

\* both files of hash h are gone
FilesGone(h) == ~DirExists(imagesDir, h) /\ ~DirExists(thumbsDir, h)

\* C14 as claimed: with one request after the other, a delete of the only
\* record referencing a hash has removed the original and the thumbnail,
\* and no record of that name is left, so that a second delete of the
\* name fails with NotFound.
C14_SecondDeleteNotFound ==
    \A p \in Procs :
        DeletedOnlyReference(p) =>
            /\ rq[p].removed = {"image", "thumb"}
            /\ FilesGone(rq[p].img.hash)
            /\ Named(rq[p].img.name) = {}

\* C14: with one request after the other, a delete of the only record
\* referencing a hash removes the original and the thumbnail; an admitted
\* delete fails with NotFound exactly when no record has its name (so a
\* second delete of a name fails with NotFound unless another record has
\* that name), and then it leaves the index, the config file and all
\* files unchanged.
C14_DeleteNotFound ==
    [][\A p \in Procs :
          /\ (/\ Free(p) /\ rq'[p].op = "delete"
              /\ CheckAdmin(config, rq'[p].addr, rq'[p].token) = "Ok")
             => IF Named(rq'[p].arg) = {}
                THEN /\ rq'[p].pc = "done"
                     /\ rq'[p].result = "NotFound"
                     /\ UNCHANGED <<config, disk, dirs>>
                ELSE /\ rq'[p].result # "NotFound"
                     /\ rq'[p].img = config.images[
                            CHOOSE i \in Named(rq'[p].arg) :
                                \A j \in Named(rq'[p].arg) : i <= j]
          /\ (/\ rq[p].op = "delete" /\ rq[p].pc = "save"
              /\ rq'[p].pc = "done"
              /\ \A i \in 1..Len(config'.images) :
                    config'.images[i].hash # rq[p].img.hash)
             => /\ rq'[p].removed = {"image", "thumb"}
                /\ ~DirExists(imagesDir', rq[p].img.hash)
                /\ ~DirExists(thumbsDir', rq[p].img.hash)]_vars

\* a delete of the only record referencing a hash has returned: both files
\* are gone and no record of its name is left
C14_Witness ==
    \E p \in Procs :
        /\ DeletedOnlyReference(p)
        /\ rq[p].result = "NoContent"
        /\ rq[p].removed = {"image", "thumb"}
        /\ FilesGone(rq[p].img.hash)
        /\ Named(rq[p].img.name) = {}

\* the steps of a handler that act on the images, thumbnails or staging
\* directory: the next step of a handler at one of these positions is an
\* existence check, a create, a write, a rename or a removal of a file
FileIoPositions ==
    {"fields", "check", "rename", "thumb", "thumb_write", "rm_image",
     "rm_thumb"}

\* C15: no handler is about to act on the images, thumbnails or staging
\* directory while it holds the write lock on the index.
C15_NoFileIoUnderLock ==
    \A p \in Procs : writer = p => rq[p].pc \notin FileIoPositions

\* the thumbnail task of the upload served by handler p has run its
\* derivation (lines 177-208), whatever came of it
ThumbnailRun(p) ==
    /\ rq[p].op = "upload"
    /\ rq[p].pc = "thumb_write" \/ rq[p].thumb # "none"

\* C16: no two uploads have both run the thumbnail derivation for the same
\* hash when the second of them moved its staging file onto the file the
\* other had placed, that is while the file of that hash stayed in the
\* images directory.
C16_ThumbnailOncePerHash ==
    \A p, q \in Procs :
        (/\ p # q
         /\ rq[p].file_hash = rq[q].file_hash
         /\ ThumbnailRun(p) /\ ThumbnailRun(q))
        => ~rq[q].raced

\* C17 as claimed: a file of the images directory stays as it was placed,
\* by the upload that placed it, until it is removed.
C17_NeverRewritten ==
    [][\A h \in DOMAIN imagesDir :
          h \in DOMAIN imagesDir' => imagesDir'[h] = imagesDir[h]]_vars

\* C17: the bytes stored under a hash are the bytes of that hash and never
\* change while the file is there. An upload whose existence check finds
\* the file does not move its staging file; the file is replaced only by
\* the move of an upload whose check came before a concurrent upload placed
\* it, and then by the same bytes. Only a delete of a record of that hash
\* removes the file.
C17_ContentNeverChanges ==
    [][/\ \A h \in DOMAIN imagesDir : Digest(imagesDir[h].bytes) = h
       /\ \A h \in DOMAIN imagesDir :
             (h \in DOMAIN imagesDir' /\ imagesDir'[h] # imagesDir[h]) =>
                /\ imagesDir'[h].bytes = imagesDir[h].bytes
                /\ \E p \in Procs :
                      /\ rq[p].op = "upload" /\ rq[p].pc = "rename"
                      /\ rq[p].file_hash = h
                      /\ ~rq[p].seen
                      /\ rq'[p].moved /\ rq'[p].raced
                      /\ imagesDir'[h].by = rq[p].id
       /\ \A h \in DOMAIN imagesDir \ DOMAIN imagesDir' :
             \E p \in Procs : rq[p].op = "delete" /\ rq[p].img.hash = h
       /\ \A p \in Procs :
             (rq[p].pc = "check" /\ rq'[p].pc # "check"
              /\ DirExists(imagesDir, rq[p].file_hash))
             => /\ rq'[p].pc = "append"
                /\ ~rq'[p].moved
                /\ UNCHANGED imagesDir]_vars

\* an upload has replaced the file a concurrent upload of the same bytes
\* had placed, and has returned success
C17_Witness ==
    \E p \in Procs :
        /\ UploadReturned(p)
        /\ rq[p].moved /\ rq[p].raced /\ ~rq[p].seen
        /\ rq[p].result = "Ok"
        /\ DirExists(imagesDir, rq[p].file_hash)
        /\ imagesDir[rq[p].file_hash].by = rq[p].id

\* C18: within one upload the hash is final, and is the hash of the staged
\* bytes, when the existence check and the move are taken; the thumbnail
\* step starts only after the move; the record is appended only after the
\* thumbnail attempt has finished, or with no thumbnail step when the
\* existence check found the file; the guard is disarmed only after the
\* move; a record is in the index only of an upload that moved its file
\* into place or found it in place.
C18_UploadStepOrder ==
    \A p \in Procs :
        rq[p].op = "upload" =>
            /\ rq[p].pc \in {"check", "rename"} =>
                  /\ rq[p].file_received
                  /\ DirExists(tempDir, rq[p].id)
                  /\ rq[p].file_hash = Digest(tempDir[rq[p].id])
                  /\ ~rq[p].moved /\ rq[p].thumb = "none"
            /\ rq[p].pc = "rename" => ~rq[p].seen
            /\ (rq[p].pc \in {"thumb", "thumb_write"} \/ rq[p].thumb # "none")
               => rq[p].moved /\ rq[p].file_received
            /\ rq[p].pc \in {"thumb", "thumb_write"} => rq[p].guard
            /\ rq[p].pc = "append" =>
                  \/ /\ rq[p].seen /\ ~rq[p].moved
                     /\ rq[p].thumb = "none" /\ rq[p].guard
                  \/ /\ rq[p].moved
                     /\ rq[p].thumb \in {"ok", "decode_err", "encode_err"}
                     /\ ~rq[p].guard
            /\ (rq[p].id # 0 /\ ~rq[p].guard) => rq[p].moved
            /\ RecordsBy(rq[p].id) # {} =>
                  /\ rq[p].pc = "done"
                  /\ rq[p].moved \/ rq[p].seen
                  /\ rq[p].moved => rq[p].thumb # "none"

\* an upload has returned success after the move, the thumbnail and the
\* append, its guard disarmed
C18_Witness ==
    \E p \in Procs :
        /\ UploadReturned(p)
        /\ rq[p].result = "Ok"
        /\ rq[p].moved /\ rq[p].thumb = "ok" /\ ~rq[p].guard
        /\ RecordsBy(rq[p].id) # {}

\* C19: an upload that returns Forbidden, Unauthorized, or BadRequest for
\* a missing name field or file part has created no staging file.
C19_EarlyErrorTouchesNoFile ==
    \A p \in Procs :
        (/\ UploadReturned(p)
         /\ \/ rq[p].result \in {"Forbidden", "Unauthorized"}
            \/ rq[p].result = "BadRequest" /\ rq[p].faults = {})
        => ~rq[p].staged

\* faults of the staging of the file part and of the move
AbortingFaults ==
    {"read_err", "write_err", "flush_err", "rename_err", "rename_exists_err"}

\* C20: an upload that met an I/O failure while its file part was staged or
\* moved returns an error, has no record in the index, and has committed no
\* file holding only part of the bytes sent.
C20_IoFailureAborts ==
    \A p \in Procs :
        (UploadReturned(p) /\ rq[p].faults \cap AbortingFaults # {})
        => /\ rq[p].result # "Ok"
           /\ RecordsBy(rq[p].id) = {}
           /\ \A h \in DOMAIN imagesDir :
                 imagesDir[h].by = rq[p].id
                 => imagesDir[h].bytes = SentFile(rq[p].body)

\* the records of a persisted index
Persisted(cfg) == {cfg.images[i] : i \in 1..Len(cfg.images)}

\* in this step the token of a completed gen-token run is in the config file
TokenKept ==
    (gen'.pc = "done" /\ gen'.result = "ok") => gen'.token \in disk'.tokens

\* a step of the gen-token command drops no record from the config file
IndexKept == gen' # gen => Persisted(disk) \subseteq Persisted(disk')

\* C21: once gen-token has completed, the config file holds the new token
\* and still holds it after every later step of a server that loaded its
\* config before the token was generated; and no step of gen-token removes
\* a record from the persisted index.
C21_TokenAndIndexKept == [][TokenKept /\ IndexKept]_vars

====
